---- MODULE Spec2Model ----
(***************************************************************************)
(* Workflow execution engine of ai-automation-flow (server/).              *)
(*                                                                         *)
(* Three implementations of "run a plan" live in the repository and are    *)
(* modelled side by side:                                                  *)
(*   adv : advanced_execution_engine.AdvancedExecutionEngine               *)
(*   eng : execution_engine.execute_step / execute_plan                    *)
(*   app : app.py execute_step / execute_plan_logic                        *)
(* The variable `engine` says which of them the behaviour exercises; the   *)
(* variables of the other two stay at their initial values.                *)
(***************************************************************************)
EXTENDS Integers, Sequences, FiniteSets, TLC

\* ------------------------------------------------------------------------
\* Bounds of the model
\* ------------------------------------------------------------------------
MaxSteps == 2
\* steps of a plan run by execute_plan_logic
MaxPlanSteps == 3
\* largest max_retries argument a caller passes
MaxRetries == 2
\* else_jump redirections followed in one run of execute_plan_logic
MaxJumps == 2
\* calls of execute_with_retries on one engine, and the steps and retries of
\* each, when the calls on the store are interleaved with them
MaxRuns == 2
MaxStoreSteps == 1
MaxStoreRetries == 1

\* ------------------------------------------------------------------------
\* Values
\* ------------------------------------------------------------------------
None == "None"

ExecIds == {"e1", "e2"}

StepIdOf == <<"s1", "s2", "s3", "s4">>

StepIds == {StepIdOf[k] : k \in 1..MaxSteps}

\* retry_backoff arguments (the default is 2.0)
Backoffs == {2, 3}

RECURSIVE Pow(_, _)
Pow(b, k) == IF k = 0 THEN 1 ELSE b * Pow(b, k - 1)

RECURSIVE SumSeq(_)
SumSeq(s) == IF s = <<>> THEN 0 ELSE Head(s) + SumSeq(Tail(s))

\* a Python dict as a function; d[k] = v
DictSet(d, k, v) == [x \in (DOMAIN d) \cup {k} |-> IF x = k THEN v ELSE d[x]]

EmptyDict == [x \in {} |-> None]

\* ExecutionStatus values
PENDING == "pending"
RUNNING == "running"
SUCCESS == "success"
FAILED == "failed"
RETRYING == "retrying"
PAUSED == "paused"
CANCELLED == "cancelled"
PARTIAL_FAILURE == "partial_failure"

ExecutionStatus == {PENDING, RUNNING, SUCCESS, FAILED, RETRYING, PAUSED,
                    CANCELLED, PARTIAL_FAILURE}

\* ExecutionStep.max_retries, set by the constructor and never changed
StepMaxRetries == 3

\* what a call of execution_engine.execute_step hands back to
\* _execute_step_safe: the tuple (success, output, message).  The call
\* site passes step= and previous_results=, execute_step takes step,
\* user_id and step_results; the engine reads nothing of the callee but
\* "returned" or "raised", so the model lets a call end in each way a callee
\* of that return type can: a tuple reporting success, a tuple reporting
\* failure, an exception.
NoResult == [kind |-> "none", success |-> FALSE, output |-> None]
TupleOk == [kind |-> "tuple", success |-> TRUE, output |-> "out"]
TupleFail == [kind |-> "tuple", success |-> FALSE, output |-> None]

\* outcome of one call: a returned tuple or a raised exception
Returned(t) == [raised |-> FALSE, value |-> t, error |-> None]
Raised(e) == [raised |-> TRUE, value |-> NoResult, error |-> e]

CallOutcomes == {Returned(TupleOk), Returned(TupleFail), Raised("err")}

VARIABLES
    engine,
    \* AdvancedExecutionEngine fields
    execution_history, paused_executions, dead_letter_queue,
    \* execute_with_retries: arguments, locals, position
    pc, execution_id, max_retries, retry_backoff,
    execution_record, step_results, step_idx, step, step_obj,
    attempt, step_success,
    \* observations of the run: calls of _execute_step_safe and time.sleep
    \* made for the current step, calls of execute_with_retries so far
    dispatches, sleeps, runs,
    \* execution_engine.py: the frames of execute_plan and execute_step
    eng,
    \* app.py: the frames of execute_plan_logic and execute_step, and
    \* db['executions']
    app, db,
    \* what the last call of pause_execution, resume_execution,
    \* get_execution_status, get_dead_letter_queue, retry_from_dlq or
    \* get_execution_metrics handed back to its caller
    returned,
    \* a second thread inside execute_with_retries on the same engine: its
    \* position, its execution_id and its execution_record
    peer

storeVars == <<execution_history, paused_executions, dead_letter_queue>>

runVars == <<pc, execution_id, max_retries, retry_backoff, execution_record,
             step_results, step_idx, step, step_obj, attempt, step_success,
             dispatches, sleeps, runs, peer>>

advVars == <<execution_history, paused_executions, dead_letter_queue,
             pc, execution_id, max_retries, retry_backoff, execution_record,
             step_results, step_idx, step, step_obj, attempt, step_success,
             dispatches, sleeps, runs, returned, peer>>

vars == <<engine, execution_history, paused_executions, dead_letter_queue,
          pc, execution_id, max_retries, retry_backoff, execution_record,
          step_results, step_idx, step, step_obj, attempt, step_success,
          dispatches, sleeps, runs, eng, app, db, returned, peer>>

\* what an action of the advanced engine leaves alone
others == <<engine, eng, app, db, returned, peer>>

\* ------------------------------------------------------------------------
\* advanced_execution_engine.py
\* ------------------------------------------------------------------------

\* the steps a workflow can hold at position k (0-based)
WorkflowSteps(k) ==
    [id : {StepIdOf[k + 1]}, condition : {None, "cond"},
     depends_on : {None} \cup StepIds]

NoStep == [id |-> None, condition |-> None, depends_on |-> None]

\* ExecutionStep.__init__
ExecutionStep(step_id) ==
    [step_id |-> step_id, status |-> PENDING, result |-> NoResult,
     error |-> None, retry_count |-> 0, max_retries |-> StepMaxRetries]

\* ExecutionStep.to_dict
to_dict(obj) ==
    [step_id |-> obj.step_id, status |-> obj.status, result |-> obj.result,
     error |-> obj.error, retry_count |-> obj.retry_count]

NewRecord(eid, n) ==
    [execution_id |-> eid, status |-> RUNNING, steps |-> <<>>,
     total_steps |-> n, completed_steps |-> 0, failed_steps |-> <<>>,
     retry_attempts |-> 0, errors |-> <<>>, completed_at |-> None]

\* _should_execute_step
ShouldExecuteStep(s, previous_results) ==
    IF s.condition = None THEN TRUE
    ELSE IF s.depends_on # None /\ s.depends_on \notin DOMAIN previous_results
         THEN FALSE
         ELSE TRUE

\* the while condition of the retry loop
RetryLoopContinues(a, mr, success) == a <= mr /\ ~success

\* the branch taken after a failed attempt: TRUE = sleep and go on
RetryAfterFailure(a, mr) == a <= mr

\* wait_time = retry_backoff ** attempt
WaitTime(rb, a) == Pow(rb, a)

\* a variant that calls a run with any completed step a success
FinalStatusLenient(rec) ==
    IF rec.completed_steps > 0 THEN SUCCESS
    ELSE IF rec.failed_steps = <<>> THEN SUCCESS ELSE FAILED

\* "Determine final status"
FinalStatus(rec) ==
    IF rec.failed_steps # <<>>
    THEN IF rec.completed_steps > 0 THEN PARTIAL_FAILURE ELSE FAILED
    ELSE SUCCESS

\* a variant that files every run that did not succeed
GoesToDLQUnlessSuccess(rec) == rec.status # SUCCESS

\* "Add to DLQ if failed"
GoesToDLQ(rec) == rec.status = FAILED

\* the frame of execute_with_retries is gone once the call has ended
LocalsDiscarded ==
    /\ execution_id' = None
    /\ max_retries' = 0
    /\ retry_backoff' = 2
    /\ execution_record' = NewRecord(None, 0)
    /\ step_results' = EmptyDict
    /\ step_idx' = 0
    /\ step' = NoStep
    /\ step_obj' = ExecutionStep(None)
    /\ attempt' = 0
    /\ step_success' = FALSE
    /\ dispatches' = 0
    /\ sleeps' = <<>>

InitAdv ==
    /\ execution_history = EmptyDict
    /\ paused_executions = EmptyDict
    /\ dead_letter_queue = <<>>
    /\ pc = "idle"
    /\ execution_id = None
    /\ max_retries = 0
    /\ retry_backoff = 2
    /\ execution_record = NewRecord(None, 0)
    /\ step_results = EmptyDict
    /\ step_idx = 0
    /\ step = NoStep
    /\ step_obj = ExecutionStep(None)
    /\ attempt = 0
    /\ step_success = FALSE
    /\ dispatches = 0
    /\ sleeps = <<>>
    /\ runs = 0

\* execute_with_retries is called: build the record, enter the for loop
execute_with_retries(eid, n, mr, rb) ==
    /\ engine = "adv"
    /\ pc \in {"idle", "raised"}
    /\ runs' = runs + 1
    /\ execution_id' = eid
    /\ max_retries' = mr
    /\ retry_backoff' = rb
    /\ execution_record' = NewRecord(eid, n)
    /\ step_results' = EmptyDict
    /\ step_idx' = 0
    /\ step' = NoStep
    /\ step_obj' = ExecutionStep(None)
    /\ attempt' = 0
    /\ step_success' = FALSE
    /\ dispatches' = 0
    /\ sleeps' = <<>>
    /\ pc' = "for"
    /\ UNCHANGED <<others, storeVars>>

\* for step_idx, step in enumerate(steps): the next step is read and passes
\* _should_execute_step
ForStep(s) ==
    /\ engine = "adv"
    /\ pc = "for"
    /\ step_idx < execution_record.total_steps
    /\ ShouldExecuteStep(s, step_results)
    /\ step' = s
    /\ step_obj' = ExecutionStep(s.id)
    /\ attempt' = 0
    /\ step_success' = FALSE
    /\ dispatches' = 0
    /\ sleeps' = <<>>
    /\ pc' = "while"
    /\ UNCHANGED <<others, storeVars, execution_id, max_retries, retry_backoff,
                   execution_record, step_results, step_idx, runs>>

\* the step does not pass _should_execute_step: the skip branch reads
\* ExecutionStatus.SKIPPED. The enum has no such member, so the read raises
\* AttributeError, which nothing catches: it leaves execute_with_retries.
ForSkip(s) ==
    /\ engine = "adv"
    /\ pc = "for"
    /\ step_idx < execution_record.total_steps
    /\ ~ShouldExecuteStep(s, step_results)
    /\ "skipped" \notin ExecutionStatus
    /\ pc' = "raised"
    /\ LocalsDiscarded
    /\ UNCHANGED <<others, storeVars, runs>>

\* while attempt <= max_retries and not step_success: enter the try block and
\* call _execute_step_safe
AttemptBegin ==
    /\ engine = "adv"
    /\ pc = "while"
    /\ RetryLoopContinues(attempt, max_retries, step_success)
    /\ step_obj' = [step_obj EXCEPT
                      !.status = IF attempt = 0 THEN RUNNING ELSE RETRYING,
                      !.retry_count = attempt]
    /\ dispatches' = dispatches + 1
    /\ pc' = "call"
    /\ UNCHANGED <<others, storeVars, execution_id, max_retries, retry_backoff,
                   execution_record, step_results, step_idx, step, attempt,
                   step_success, sleeps, runs>>

\* _execute_step_safe returned a value: the rest of the try block
AttemptReturns(o) ==
    /\ engine = "adv"
    /\ pc = "call"
    /\ ~o.raised
    /\ step_obj' = [step_obj EXCEPT !.result = o.value, !.status = SUCCESS]
    /\ step_results' = DictSet(step_results, step.id, o.value)
    /\ execution_record' = [execution_record EXCEPT !.completed_steps = @ + 1]
    /\ step_success' = TRUE
    /\ pc' = "while"
    /\ UNCHANGED <<others, storeVars, execution_id, max_retries, retry_backoff,
                   step_idx, step, attempt, dispatches, sleeps, runs>>

\* _execute_step_safe raised: the except block, with its sleep
AttemptRaises(o) ==
    /\ engine = "adv"
    /\ pc = "call"
    /\ o.raised
    /\ attempt' = attempt + 1
    /\ IF RetryAfterFailure(attempt + 1, max_retries)
       THEN /\ step_obj' = [step_obj EXCEPT !.error = o.error]
            /\ sleeps' = Append(sleeps, WaitTime(retry_backoff, attempt + 1))
            /\ execution_record' =
                 [execution_record EXCEPT !.retry_attempts = @ + 1]
       ELSE /\ step_obj' = [step_obj EXCEPT !.error = o.error,
                                            !.status = FAILED]
            /\ sleeps' = sleeps
            /\ execution_record' =
                 [execution_record EXCEPT
                    !.retry_attempts = @ + 1,
                    !.failed_steps = Append(@, step_obj.step_id),
                    !.errors = Append(@, [step |-> step_obj.step_id,
                                          error |-> o.error])]
    /\ pc' = "while"
    /\ UNCHANGED <<others, storeVars, execution_id, max_retries, retry_backoff,
                   step_results, step_idx, step, step_success, dispatches,
                   runs>>

\* the while loop is left: execution_record["steps"].append(step_obj.to_dict())
StepDone ==
    /\ engine = "adv"
    /\ pc = "while"
    /\ ~RetryLoopContinues(attempt, max_retries, step_success)
    /\ execution_record' =
         [execution_record EXCEPT !.steps = Append(@, to_dict(step_obj))]
    /\ step_idx' = step_idx + 1
    /\ pc' = "for"
    /\ UNCHANGED <<others, storeVars, execution_id, max_retries, retry_backoff,
                   step_results, step, step_obj, attempt, step_success,
                   dispatches, sleeps, runs>>

\* after the for loop: final status and completed_at
Finalize ==
    /\ engine = "adv"
    /\ pc = "for"
    /\ step_idx >= execution_record.total_steps
    /\ execution_record' =
         [execution_record EXCEPT !.status = FinalStatus(execution_record),
                                  !.completed_at = "set"]
    /\ pc' = "store"
    /\ UNCHANGED <<others, storeVars, execution_id, max_retries, retry_backoff,
                   step_results, step_idx, step, step_obj, attempt,
                   step_success, dispatches, sleeps, runs>>

\* self.execution_history[execution_id] = execution_record
StoreRecord ==
    /\ engine = "adv"
    /\ pc = "store"
    /\ execution_history' =
         DictSet(execution_history, execution_id, execution_record)
    /\ pc' = "dlq"
    /\ UNCHANGED <<others, paused_executions, dead_letter_queue, execution_id,
                   max_retries, retry_backoff, execution_record, step_results,
                   step_idx, step, step_obj, attempt, step_success, dispatches,
                   sleeps, runs>>

\* a variant that keeps only the latest failed run in the queue
FileDeadLetterLatestOnly ==
    /\ engine = "adv"
    /\ pc = "dlq"
    /\ dead_letter_queue' =
         IF GoesToDLQ(execution_record)
         THEN <<execution_record>>
         ELSE dead_letter_queue
    /\ pc' = "idle"
    /\ LocalsDiscarded
    /\ UNCHANGED <<others, execution_history, paused_executions, runs>>

\* the dead-letter branch and the return
FileDeadLetter ==
    /\ engine = "adv"
    /\ pc = "dlq"
    /\ dead_letter_queue' =
         IF GoesToDLQ(execution_record)
         THEN Append(dead_letter_queue, execution_record)
         ELSE dead_letter_queue
    /\ pc' = "idle"
    /\ LocalsDiscarded
    /\ UNCHANGED <<others, execution_history, paused_executions, runs>>

\* a single call on a freshly constructed engine
NextAdv ==
    \/ runs = 0 /\ \E eid \in ExecIds, n \in 0..MaxSteps, mr \in 0..MaxRetries,
          rb \in Backoffs : execute_with_retries(eid, n, mr, rb)
    \/ \E s \in WorkflowSteps(step_idx) : ForStep(s)
    \/ \E s \in WorkflowSteps(step_idx) : ForSkip(s)
    \/ AttemptBegin
    \/ \E o \in CallOutcomes : AttemptReturns(o)
    \/ \E o \in CallOutcomes : AttemptRaises(o)
    \/ StepDone
    \/ Finalize
    \/ StoreRecord
    \/ FileDeadLetter

\* ------------------------------------------------------------------------
\* advanced_execution_engine.py: the calls that read and edit the store
\* ------------------------------------------------------------------------

\* del d[k]
DictDel(d, k) == [x \in DOMAIN d \ {k} |-> d[x]]

\* datetime.now().isoformat()
Timestamp == "set"

\* every returned value is held as a record: a bool as [result |-> b], the
\* queue as [queue |-> q], a dict as it is
NoReturn == [op |-> None, execution_id |-> None, value |-> [none |-> TRUE]]

ApiReturn(op, eid, value) == [op |-> op, execution_id |-> eid, value |-> value]

\* a pause that would also mark the stored record as paused
pause_executionMarksRecord(eid) ==
    /\ engine = "adv"
    /\ IF eid \in DOMAIN execution_history
       THEN /\ paused_executions' = DictSet(paused_executions, eid, Timestamp)
            /\ execution_history' =
                 [execution_history EXCEPT ![eid].status = "paused"]
            /\ returned' = ApiReturn("pause_execution", eid, [result |-> TRUE])
       ELSE /\ paused_executions' = paused_executions
            /\ execution_history' = execution_history
            /\ returned' = ApiReturn("pause_execution", eid, [result |-> FALSE])
    /\ UNCHANGED <<engine, eng, app, db, dead_letter_queue, runVars>>

\* pause_execution: only an id of the history can be paused
pause_execution(eid) ==
    /\ engine = "adv"
    /\ IF eid \in DOMAIN execution_history
       THEN /\ paused_executions' = DictSet(paused_executions, eid, Timestamp)
            /\ returned' = ApiReturn("pause_execution", eid, [result |-> TRUE])
       ELSE /\ paused_executions' = paused_executions
            /\ returned' = ApiReturn("pause_execution", eid, [result |-> FALSE])
    /\ UNCHANGED <<engine, eng, app, db, execution_history, dead_letter_queue,
                   runVars>>

\* resume_execution: only a paused id can be resumed
resume_execution(eid) ==
    /\ engine = "adv"
    /\ IF eid \in DOMAIN paused_executions
       THEN /\ paused_executions' = DictDel(paused_executions, eid)
            /\ returned' = ApiReturn("resume_execution", eid, [result |-> TRUE])
       ELSE /\ paused_executions' = paused_executions
            /\ returned' = ApiReturn("resume_execution", eid, [result |-> FALSE])
    /\ UNCHANGED <<engine, eng, app, db, execution_history, dead_letter_queue,
                   runVars>>

NotFound == [status |-> "not_found"]

\* what get_execution_status returns for an id
ExecutionStatusOf(history, eid) ==
    IF eid \in DOMAIN history THEN history[eid] ELSE NotFound

get_execution_status(eid) ==
    /\ engine = "adv"
    /\ returned' = ApiReturn("get_execution_status", eid,
                        ExecutionStatusOf(execution_history, eid))
    /\ UNCHANGED <<engine, eng, app, db, storeVars, runVars>>

get_dead_letter_queue ==
    /\ engine = "adv"
    /\ returned' = ApiReturn("get_dead_letter_queue", None,
                        [queue |-> dead_letter_queue])
    /\ UNCHANGED <<engine, eng, app, db, storeVars, runVars>>

\* next((item for item in self.dead_letter_queue if ...), None)
DlqItem(queue, eid) ==
    IF \E k \in 1..Len(queue) : queue[k].execution_id = eid
    THEN queue[CHOOSE k \in 1..Len(queue) :
                  /\ queue[k].execution_id = eid
                  /\ \A j \in 1..(k - 1) : queue[j].execution_id # eid]
    ELSE NotFound

\* retry_from_dlq looks the item up and answers; it starts nothing
retry_from_dlq(eid) ==
    /\ engine = "adv"
    /\ returned' = ApiReturn("retry_from_dlq", eid,
                        IF DlqItem(dead_letter_queue, eid) = NotFound
                        THEN [error |-> "Execution not in DLQ"]
                        ELSE [message |-> "Queued for retry",
                              execution_id |-> eid])
    /\ UNCHANGED <<engine, eng, app, db, storeVars, runVars>>

\* number of records of the history with a given status
CountStatus(history, status) ==
    Cardinality({e \in DOMAIN history : history[e].status = status})

get_execution_metrics ==
    /\ engine = "adv"
    /\ returned' = ApiReturn("get_execution_metrics", None,
                        [total_executions |-> Cardinality(DOMAIN execution_history),
                         successful_executions |->
                             CountStatus(execution_history, SUCCESS),
                         failed_executions |->
                             CountStatus(execution_history, FAILED)])
    /\ UNCHANGED <<engine, eng, app, db, storeVars, runVars>>

\* the steps of the workflows run while the store is being read and edited:
\* a plain step, or one whose dependency has no result
StoreSteps(k) ==
    {s \in WorkflowSteps(k) :
        /\ s.depends_on \in {None, s.id}
        /\ s.condition = None <=> s.depends_on = None}

\* several calls of execute_with_retries on one engine, with calls of the
\* other methods at any point between their steps
NextStore ==
    \/ runs < MaxRuns
       /\ \E eid \in ExecIds, n \in 0..MaxStoreSteps, mr \in 0..MaxStoreRetries,
             rb \in Backoffs : execute_with_retries(eid, n, mr, rb)
    \/ \E s \in StoreSteps(step_idx) : ForStep(s)
    \/ \E s \in StoreSteps(step_idx) : ForSkip(s)
    \/ AttemptBegin
    \/ \E o \in CallOutcomes : AttemptReturns(o)
    \/ \E o \in CallOutcomes : AttemptRaises(o)
    \/ StepDone
    \/ Finalize
    \/ StoreRecord
    \/ FileDeadLetter
    \/ \E eid \in ExecIds : pause_execution(eid)
    \/ \E eid \in ExecIds : resume_execution(eid)
    \/ \E eid \in ExecIds : get_execution_status(eid)
    \/ get_dead_letter_queue
    \/ \E eid \in ExecIds : retry_from_dlq(eid)
    \/ get_execution_metrics

\* ------------------------------------------------------------------------
\* advanced_execution_engine.py: two threads inside execute_with_retries
\* ------------------------------------------------------------------------

\* The method is a plain def that sleeps with time.sleep: two executions run
\* at the same time only on two threads. The second thread's frame is peer.
\* Everything it does between two accesses of the engine's fields touches its
\* own frame only, so one pass of its for loop is one step here; it is called
\* with max_retries = 0 and steps that have no condition.
PeerInit ==
    [pc |-> "idle", execution_id |-> None, execution_record |-> NewRecord(None, 0),
     step_idx |-> 0]

PeerMaxRetries == 0

\* the step entry and the record after one pass of the for loop whose only
\* attempt ended with outcome o
PeerStepObj(s, o) ==
    IF o.raised
    THEN [ExecutionStep(s.id) EXCEPT !.status = FAILED, !.error = o.error]
    ELSE [ExecutionStep(s.id) EXCEPT !.status = SUCCESS, !.result = o.value]

PeerRecordAfter(rec, s, o) ==
    IF o.raised
    THEN [rec EXCEPT !.retry_attempts = @ + 1,
                     !.failed_steps = Append(@, s.id),
                     !.errors = Append(@, [step |-> s.id, error |-> o.error]),
                     !.steps = Append(@, to_dict(PeerStepObj(s, o)))]
    ELSE [rec EXCEPT !.completed_steps = @ + 1,
                     !.steps = Append(@, to_dict(PeerStepObj(s, o)))]

Peer_execute_with_retries(eid, n) ==
    /\ engine = "adv"
    /\ peer.pc = "idle"
    /\ peer' = [pc |-> "for", execution_id |-> eid,
                execution_record |-> NewRecord(eid, n), step_idx |-> 0]
    /\ UNCHANGED <<engine, eng, app, db, returned, storeVars, pc, execution_id,
                   max_retries, retry_backoff, execution_record, step_results,
                   step_idx, step, step_obj, attempt, step_success, dispatches,
                   sleeps, runs>>

\* one pass of the for loop
Peer_Step(s, o) ==
    /\ engine = "adv"
    /\ peer.pc = "for"
    /\ peer.step_idx < peer.execution_record.total_steps
    /\ ShouldExecuteStep(s, EmptyDict)
    /\ ~RetryAfterFailure(1, PeerMaxRetries)
    /\ peer' = [peer EXCEPT
                  !.execution_record = PeerRecordAfter(@, s, o),
                  !.step_idx = @ + 1]
    /\ UNCHANGED <<engine, eng, app, db, returned, storeVars, pc, execution_id,
                   max_retries, retry_backoff, execution_record, step_results,
                   step_idx, step, step_obj, attempt, step_success, dispatches,
                   sleeps, runs>>

\* after the for loop: final status and completed_at
Peer_Finalize ==
    /\ engine = "adv"
    /\ peer.pc = "for"
    /\ peer.step_idx >= peer.execution_record.total_steps
    /\ peer' = [peer EXCEPT
                  !.execution_record =
                     [@ EXCEPT !.status = FinalStatus(peer.execution_record),
                               !.completed_at = "set"],
                  !.pc = "store"]
    /\ UNCHANGED <<engine, eng, app, db, returned, storeVars, pc, execution_id,
                   max_retries, retry_backoff, execution_record, step_results,
                   step_idx, step, step_obj, attempt, step_success, dispatches,
                   sleeps, runs>>

\* a store that would keep nothing but the record being written
Peer_StoreRecordAlone ==
    /\ engine = "adv"
    /\ peer.pc = "store"
    /\ execution_history' =
         DictSet(EmptyDict, peer.execution_id, peer.execution_record)
    /\ peer' = [peer EXCEPT !.pc = "dlq"]
    /\ UNCHANGED <<engine, eng, app, db, returned, paused_executions,
                   dead_letter_queue, pc, execution_id, max_retries,
                   retry_backoff, execution_record, step_results, step_idx,
                   step, step_obj, attempt, step_success, dispatches, sleeps,
                   runs>>

\* self.execution_history[execution_id] = execution_record
Peer_StoreRecord ==
    /\ engine = "adv"
    /\ peer.pc = "store"
    /\ execution_history' =
         DictSet(execution_history, peer.execution_id, peer.execution_record)
    /\ peer' = [peer EXCEPT !.pc = "dlq"]
    /\ UNCHANGED <<engine, eng, app, db, returned, paused_executions,
                   dead_letter_queue, pc, execution_id, max_retries,
                   retry_backoff, execution_record, step_results, step_idx,
                   step, step_obj, attempt, step_success, dispatches, sleeps,
                   runs>>

\* "Add to DLQ if failed", then return execution_record: the caller keeps
\* what was returned
Peer_FileDeadLetter ==
    /\ engine = "adv"
    /\ peer.pc = "dlq"
    /\ dead_letter_queue' =
         IF GoesToDLQ(peer.execution_record)
         THEN Append(dead_letter_queue, peer.execution_record)
         ELSE dead_letter_queue
    /\ peer' = [peer EXCEPT !.pc = "returned"]
    /\ UNCHANGED <<engine, eng, app, db, returned, execution_history,
                   paused_executions, pc, execution_id, max_retries,
                   retry_backoff, execution_record, step_results, step_idx,
                   step, step_obj, attempt, step_success, dispatches, sleeps,
                   runs>>

\* one call of execute_with_retries on each of two threads of one engine
NextThreads ==
    \/ runs = 0
       /\ \E eid \in ExecIds, n \in 0..MaxStoreSteps, mr \in 0..MaxStoreRetries,
             rb \in Backoffs : execute_with_retries(eid, n, mr, rb)
    \/ \E s \in StoreSteps(step_idx) : ForStep(s)
    \/ \E s \in StoreSteps(step_idx) : ForSkip(s)
    \/ AttemptBegin
    \/ \E o \in CallOutcomes : AttemptReturns(o)
    \/ \E o \in CallOutcomes : AttemptRaises(o)
    \/ StepDone
    \/ Finalize
    \/ StoreRecord
    \/ FileDeadLetter
    \/ \E eid \in ExecIds, n \in 0..MaxStoreSteps :
          Peer_execute_with_retries(eid, n)
    \/ \E s \in StoreSteps(peer.step_idx), o \in CallOutcomes : Peer_Step(s, o)
    \/ Peer_Finalize
    \/ Peer_StoreRecord
    \/ Peer_FileDeadLetter

\* ------------------------------------------------------------------------
\* provider_registry.py and execution_engine.py
\* ------------------------------------------------------------------------

\* what the provider function registered under a name does when called
ProviderBehaviours == {"ok", "value", "retfail", "raise", "unknown"}

ProviderResult(success, output, error) ==
    [kind |-> "tuple", success |-> success, output |-> output, error |-> error]

\* ProviderRegistry.execute: an unknown name and a raising provider both
\* come back as ProviderResult(success=False); a bare return value is wrapped
RegistryExecute(b) ==
    CASE b = "unknown" -> ProviderResult(FALSE, None, "Unknown provider")
      [] b = "raise" -> ProviderResult(FALSE, None, "err")
      [] b = "value" -> ProviderResult(TRUE, "out", None)
      [] b = "ok" -> ProviderResult(TRUE, "out", None)
      [] b = "retfail" -> ProviderResult(FALSE, None, "err")

\* execute_plan passes max_retries=3 to every execute_step
PlanMaxRetries == 3

\* the steps of a plan_data: a step may lack its provider
EngSteps == [provider : {None, "p"}]

EngInit ==
    [pc |-> "idle", total_steps |-> 0, idx |-> 0, step |-> [provider |-> None],
     step_results |-> <<>>, completed_steps |-> 0, failed_steps |-> 0,
     errors |-> <<>>,
     max_retries |-> 0, attempt |-> 0, last_error |-> None,
     ret |-> [success |-> FALSE, output |-> None, message |-> None],
     dispatches |-> 0, sleeps |-> <<>>, returned_failures |-> 0]

\* for attempt in range(max_retries)
EngAttemptsLeft(a, mr) == a < mr

\* "Don't retry on last attempt"
EngLastAttempt(a, mr) == a = mr - 1

\* wait_time = 2 ** attempt
EngWaitTime(a) == Pow(2, a)

\* what execute_step returns after registry.execute returned result
EngStepReturn(result) ==
    [success |-> result.success, output |-> result.output, message |-> "msg"]

EngFailure(message) ==
    [success |-> FALSE, output |-> None, message |-> message]

\* execute_plan is called
Eng_execute_plan(n) ==
    /\ engine = "eng"
    /\ eng.pc = "idle"
    /\ eng' = [EngInit EXCEPT !.pc = "plan", !.total_steps = n]
    /\ UNCHANGED <<advVars, engine, app, db>>

\* for idx, step in enumerate(steps): execute_step is entered; it returns at
\* once without a provider or without credentials, else the retry loop starts
Eng_execute_step(s, credentials) ==
    /\ engine = "eng"
    /\ eng.pc = "plan"
    /\ eng.idx < eng.total_steps
    /\ eng' = IF s.provider = None
              THEN [eng EXCEPT !.step = s, !.pc = "ret", !.dispatches = 0,
                               !.sleeps = <<>>, !.returned_failures = 0,
                               !.max_retries = PlanMaxRetries,
                               !.ret = EngFailure("No provider specified")]
              ELSE IF credentials = "raise"
              THEN [eng EXCEPT !.step = s, !.pc = "ret", !.dispatches = 0,
                               !.sleeps = <<>>, !.returned_failures = 0,
                               !.max_retries = PlanMaxRetries,
                               !.ret = EngFailure("Failed to retrieve credentials")]
              ELSE [eng EXCEPT !.step = s, !.pc = "loop", !.dispatches = 0,
                               !.sleeps = <<>>, !.returned_failures = 0,
                               !.max_retries = PlanMaxRetries,
                               !.attempt = 0, !.last_error = None]
    /\ UNCHANGED <<advVars, engine, app, db>>

\* the head of the retry loop: call registry.execute, or leave the loop
Eng_Attempt ==
    /\ engine = "eng"
    /\ eng.pc = "loop"
    /\ eng' = IF EngAttemptsLeft(eng.attempt, eng.max_retries)
              THEN [eng EXCEPT !.pc = "dispatch", !.dispatches = @ + 1]
              ELSE [eng EXCEPT !.pc = "ret",
                               !.ret = EngFailure("failed after attempts")]
    /\ UNCHANGED <<advVars, engine, app, db>>

\* registry.execute returned a ProviderResult: execute_step returns its
\* fields, whatever result.success is
Eng_DispatchReturns(b) ==
    /\ engine = "eng"
    /\ eng.pc = "dispatch"
    /\ eng' = [eng EXCEPT !.pc = "ret",
                          !.ret = EngStepReturn(RegistryExecute(b)),
                          !.returned_failures =
                             IF RegistryExecute(b).success THEN @ ELSE @ + 1]
    /\ UNCHANGED <<advVars, engine, app, db>>

\* the call raised: the except block, with break or sleep
Eng_DispatchRaises ==
    /\ engine = "eng"
    /\ eng.pc = "dispatch"
    /\ eng' = IF EngLastAttempt(eng.attempt, eng.max_retries)
              THEN [eng EXCEPT !.pc = "ret", !.last_error = "err",
                               !.ret = EngFailure("failed after attempts")]
              ELSE [eng EXCEPT !.pc = "loop", !.last_error = "err",
                               !.sleeps = Append(@, EngWaitTime(eng.attempt)),
                               !.attempt = @ + 1]
    /\ UNCHANGED <<advVars, engine, app, db>>

\* back in execute_plan: record the step, stop on the first error
Eng_PlanRecord ==
    /\ engine = "eng"
    /\ eng.pc = "ret"
    /\ eng' = IF eng.ret.success
              THEN [eng EXCEPT !.step_results = Append(@, eng.ret),
                               !.completed_steps = @ + 1,
                               !.idx = @ + 1, !.pc = "plan"]
              ELSE [eng EXCEPT !.step_results = Append(@, eng.ret),
                               !.failed_steps = @ + 1,
                               !.errors = Append(@, eng.idx),
                               !.pc = "done"]
    /\ UNCHANGED <<advVars, engine, app, db>>

\* the for loop ran past the last step: return execution_summary
Eng_PlanEnd ==
    /\ engine = "eng"
    /\ eng.pc = "plan"
    /\ eng.idx >= eng.total_steps
    /\ eng' = [eng EXCEPT !.pc = "done"]
    /\ UNCHANGED <<advVars, engine, app, db>>

NextEng ==
    \/ \E n \in 0..MaxSteps : Eng_execute_plan(n)
    \/ \E s \in EngSteps, c \in {"ok", "raise"} : Eng_execute_step(s, c)
    \/ Eng_Attempt
    \/ \E b \in ProviderBehaviours : Eng_DispatchReturns(b)
    \/ Eng_DispatchRaises
    \/ Eng_PlanRecord
    \/ Eng_PlanEnd

\* ------------------------------------------------------------------------
\* app.py: values, resolve_params, evaluate_condition
\* ------------------------------------------------------------------------

\* A Python str is a sequence of symbols: single characters, and the
\* reference tokens {{step_n.output}}, which json.dumps leaves as they are.
TokenNames == <<"{{step_1.output}}", "{{step_2.output}}", "{{step_3.output}}",
                "{{step_4.output}}">>

Tok(n) == TokenNames[n]

Tokens == {Tok(n) : n \in DOMAIN TokenNames}

\* int(match.group(1)) of a token
TokNumber(t) == CHOOSE n \in DOMAIN TokenNames : Tok(n) = t

\* Python values that step outputs, items and trigger data take
VStr(chars) == [kind |-> "str", s |-> chars, items |-> <<>>]
VNone == [kind |-> "none", s |-> <<>>, items |-> <<>>]
\* a list of strings
VList(items) == [kind |-> "list", s |-> <<>>, items |-> items]
\* a dict {'items': [...]} holding a list of strings
VDictItems(items) == [kind |-> "dict_items", s |-> <<>>, items |-> items]
\* a dict {'k': 'v'} without an items key
VDictPlain == [kind |-> "dict", s |-> <<>>, items |-> <<>>]
\* the empty dict {}
VDictEmpty == [kind |-> "dict_empty", s |-> <<>>, items |-> <<>>]

RECURSIVE Flatten(_)
Flatten(ss) == IF ss = <<>> THEN <<>> ELSE Head(ss) \o Flatten(Tail(ss))

\* repr() of a str whose characters need no escape in the models's alphabet:
\* single quotes, or double quotes when the text holds a single quote only
ReprStr(chars) ==
    IF (\E i \in 1..Len(chars) : chars[i] = "'")
       /\ ~(\E i \in 1..Len(chars) : chars[i] = "\"")
    THEN <<"\"">> \o chars \o <<"\"">>
    ELSE <<"'">> \o chars \o <<"'">>

RECURSIVE ReprItems(_)
ReprItems(items) ==
    IF items = <<>> THEN <<>>
    ELSE IF Len(items) = 1 THEN ReprStr(items[1])
    ELSE ReprStr(items[1]) \o <<",", " ">> \o ReprItems(Tail(items))

\* str(value), as replace_match builds it with str(results[idx])
PyStr(v) ==
    CASE v.kind = "str" -> v.s
      [] v.kind = "none" -> <<"N", "o", "n", "e">>
      [] v.kind = "list" -> <<"[">> \o ReprItems(v.items) \o <<"]">>
      [] v.kind = "dict_items" ->
           <<"{", "'", "i", "t", "e", "m", "s", "'", ":", " ", "[">>
             \o ReprItems(v.items) \o <<"]", "}">>
      [] v.kind = "dict" ->
           <<"{", "'", "k", "'", ":", " ", "'", "v", "'", "}">>
      [] v.kind = "dict_empty" -> <<"{", "}">>

\* bool(value)
Truthy(v) ==
    CASE v.kind = "str" -> v.s # <<>>
      [] v.kind = "none" -> FALSE
      [] v.kind = "list" -> v.items # <<>>
      [] v.kind = "dict_items" -> TRUE
      [] v.kind = "dict" -> TRUE
      [] v.kind = "dict_empty" -> FALSE

\* json.dumps of the characters of a string value: quote and backslash are
\* escaped, a line feed becomes \n
RECURSIVE JsonEscape(_)
JsonEscape(chars) ==
    IF chars = <<>> THEN <<>>
    ELSE (CASE Head(chars) = "\"" -> <<"\\", "\"">>
            [] Head(chars) = "\\" -> <<"\\", "\\">>
            [] Head(chars) = "\n" -> <<"\\", "n">>
            [] OTHER -> <<Head(chars)>>) \o JsonEscape(Tail(chars))

\* a variant that puts nothing in the place of a token it cannot resolve
RECURSIVE SubstituteOrDrop(_, _)
SubstituteOrDrop(text, results) ==
    IF text = <<>> THEN <<>>
    ELSE (IF Head(text) \in Tokens
          THEN (LET idx == TokNumber(Head(text)) - 1
                IN IF 0 <= idx /\ idx < Len(results)
                   THEN PyStr(results[idx + 1])
                   ELSE <<>>)
          ELSE <<Head(text)>>) \o SubstituteOrDrop(Tail(text), results)

\* re.sub(r'\{\{step_(\d+)\.output\}\}', replace_match, json_str) on the
\* body of the dumped string: the text put in is not scanned again
RECURSIVE Substitute(_, _)
Substitute(text, results) ==
    IF text = <<>> THEN <<>>
    ELSE (IF Head(text) \in Tokens
          THEN (LET idx == TokNumber(Head(text)) - 1
                IN IF 0 <= idx /\ idx < Len(results)
                   THEN PyStr(results[idx + 1])
                   ELSE <<Head(text)>>)
          ELSE <<Head(text)>>) \o Substitute(Tail(text), results)

JsonError == [ok |-> FALSE, s |-> <<>>]

\* json.loads of the body of a string: a raw quote ends the string early and
\* what follows is no valid JSON (the alphabet has no text that would
\* continue the object), a raw line feed is a control character, a backslash
\* must start one of the escapes
RECURSIVE JsonUnescape(_)
JsonUnescape(text) ==
    IF text = <<>> THEN [ok |-> TRUE, s |-> <<>>]
    ELSE IF Head(text) = "\"" \/ Head(text) = "\n" THEN JsonError
    ELSE IF Head(text) = "\\"
    THEN IF Len(text) < 2 THEN JsonError
         ELSE IF text[2] \notin {"\"", "\\", "n", "/", "b", "f", "r", "t"}
         THEN JsonError
         ELSE LET rest == JsonUnescape(SubSeq(text, 3, Len(text)))
                  c == CASE text[2] = "n" -> "\n"
                         [] text[2] \in {"\"", "\\", "/"} -> text[2]
                         [] OTHER -> " "
              IN IF rest.ok THEN [ok |-> TRUE, s |-> <<c>> \o rest.s]
                 ELSE JsonError
    ELSE LET rest == JsonUnescape(Tail(text))
         IN IF rest.ok THEN [ok |-> TRUE, s |-> <<Head(text)>> \o rest.s]
            ELSE JsonError

\* resolve_params on a map holding one string: dumps, re.sub, loads.
\* ok = FALSE stands for the JSONDecodeError that json.loads raises.
resolve_params(chars, results) ==
    JsonUnescape(Substitute(JsonEscape(chars), results))

\* first position of the two-symbol operator op in chars, 0 if absent
Find(chars, op) ==
    IF \E i \in 1..(Len(chars) - 1) : chars[i] = op[1] /\ chars[i + 1] = op[2]
    THEN CHOOSE i \in 1..(Len(chars) - 1) :
            /\ chars[i] = op[1] /\ chars[i + 1] = op[2]
            /\ \A j \in 1..(i - 1) : ~(chars[j] = op[1] /\ chars[j + 1] = op[2])
    ELSE 0

\* str.split(op)[0] and [1], for a text that holds op
SplitFirst(chars, op) == SubSeq(chars, 1, Find(chars, op) - 1)

SplitSecond(chars, op) ==
    LET rest == SubSeq(chars, Find(chars, op) + 2, Len(chars))
    IN IF Find(rest, op) = 0 THEN rest ELSE SplitFirst(rest, op)

\* str.strip(set): drop the leading and trailing characters of the set
RECURSIVE LStrip(_, _)
LStrip(chars, set) ==
    IF chars # <<>> /\ Head(chars) \in set THEN LStrip(Tail(chars), set)
    ELSE chars

RECURSIVE RStrip(_, _)
RStrip(chars, set) ==
    IF chars # <<>> /\ chars[Len(chars)] \in set
    THEN RStrip(SubSeq(chars, 1, Len(chars) - 1), set)
    ELSE chars

Strip(chars, set) == RStrip(LStrip(chars, set), set)

\* part.strip().strip("'\"")
Operand(chars) == Strip(Strip(chars, {" ", "\n"}), {"'", "\""})

\* bool(resolved) of the text that holds no comparison
TextTruth(chars) == chars # <<>>

TryRaised == [raised |-> TRUE, value |-> FALSE]

TryValue(b) == [raised |-> FALSE, value |-> b]

\* resolve_params on a map holding a list of strings: every item is dumped,
\* substituted and loaded
ResolveItems(items, results) ==
    [ok |-> \A k \in 1..Len(items) : resolve_params(items[k], results).ok,
     items |-> [k \in 1..Len(items) |-> resolve_params(items[k], results).s]]

\* the try block of evaluate_condition. None comes back from resolve_params
\* as None, and "==" in None raises TypeError. A list comes back as a list:
\* "==" in it asks whether an item equals "==", and split is no method of a
\* list. A dict is asked for its keys, none of which is "==" or "!=".
ConditionTry(condition, results) ==
    LET eq == <<"=", "=">>
        ne == <<"!", "=">>
    IN CASE condition.kind = "none" -> TryRaised
         [] condition.kind = "str" ->
              LET r == resolve_params(condition.s, results)
              IN IF ~r.ok THEN TryRaised
                 ELSE IF Find(r.s, eq) # 0
                 THEN TryValue(Operand(SplitFirst(r.s, eq))
                                 = Operand(SplitSecond(r.s, eq)))
                 ELSE IF Find(r.s, ne) # 0
                 THEN TryValue(Operand(SplitFirst(r.s, ne))
                                 # Operand(SplitSecond(r.s, ne)))
                 ELSE TryValue(TextTruth(r.s))
         [] condition.kind = "list" ->
              LET r == ResolveItems(condition.items, results)
              IN IF ~r.ok THEN TryRaised
                 ELSE IF \E k \in 1..Len(r.items) : r.items[k] \in {eq, ne}
                 THEN TryRaised
                 ELSE TryValue(r.items # <<>>)
         [] OTHER -> TryValue(Truthy(condition))

\* a variant whose except block would let the step through
evaluate_conditionFailOpen(condition, results) ==
    IF ConditionTry(condition, results).raised
    THEN TRUE
    ELSE ConditionTry(condition, results).value

\* evaluate_condition: except Exception: return False
evaluate_condition(condition, results) ==
    IF ConditionTry(condition, results).raised
    THEN FALSE
    ELSE ConditionTry(condition, results).value

\* ------------------------------------------------------------------------
\* app.py: execute_step and execute_plan_logic
\* ------------------------------------------------------------------------

\* loop_config['items_source']: absent (''), 'step_<n>.output', or a text
\* that starts with 'step_' and holds no number ('step_x')
NoSource == [kind |-> "none", n |-> 0]
StepSource(n) == [kind |-> "step", n |-> n]
BadSource == [kind |-> "bad", n |-> 0]

\* loop_config.get('max_iterations', 100)
DefaultMaxIterations == 100

Unread ==
    [type |-> "unread", order |-> 0, provider |-> None, template |-> <<>>,
     retries |-> 0, condition |-> VNone, has_else_jump |-> FALSE,
     else_jump |-> 0, items_source |-> NoSource, max_iterations |-> 0]

TextOk == <<"o", "k">>
TextQuote == <<"\"">>
TextFalse == <<"f", "a", "l", "s", "e">>
CondEq == <<Tok(1), " ", "=", "=", " ", "'", "o", "k", "'">>

\* the action steps a plan can hold at index k: the "logic" provider on a
\* literal or on a reference to step 1, or an external provider that is
\* given retries
ActionSteps(k) ==
    {[Unread EXCEPT !.type = "action", !.order = k + 1, !.provider = "logic",
                    !.template = t] : t \in {TextOk, <<Tok(1)>>}}
    \cup {[Unread EXCEPT !.type = "action", !.order = k + 1,
                         !.provider = "ext", !.template = TextOk,
                         !.retries = MaxRetries]}

\* step.get('condition') of the condition steps that have no else_jump: no
\* condition at all, a list, and texts that hold no comparison
OtherConditions ==
    {VNone, VList(<<<<"a">>, <<"b">>, <<"c">>>>), VStr(<<>>), VStr(TextFalse),
     VStr(TextOk)}

\* the condition steps of a plan of n steps: without else_jump (j = -1) or
\* with else_jump = j
ConditionSteps(k, n) ==
    {[Unread EXCEPT !.type = "condition", !.order = k + 1,
                    !.condition = VStr(CondEq),
                    !.has_else_jump = (j >= 0),
                    !.else_jump = IF j >= 0 THEN j ELSE 0] : j \in (-1)..n}
    \cup {[Unread EXCEPT !.type = "condition", !.order = k + 1,
                         !.condition = c] : c \in OtherConditions}

\* the loop steps: the body is an external provider
LoopSteps(k) ==
    {[Unread EXCEPT !.type = "loop", !.order = k + 1, !.provider = "ext",
                    !.template = TextOk, !.items_source = src.s,
                    !.max_iterations = src.m] :
        src \in {[s |-> BadSource, m |-> DefaultMaxIterations],
                 [s |-> StepSource(1), m |-> 1],
                 [s |-> StepSource(1), m |-> DefaultMaxIterations]}}

AppSteps(k, n) == ActionSteps(k) \cup ConditionSteps(k, n) \cup LoopSteps(k)

\* what a provider branch of execute_step hands back when it does not raise
ExtOutputs == {VStr(TextQuote), VList(<<<<"a">>, <<"b">>, <<"c">>>>)}

\* the trigger_data argument: not passed, {} or a filled dict
TriggerData == {VNone, VDictEmpty, VDictPlain}

\* retries = step.get('retries', 0) or 1
Retries(r) == IF r = 0 THEN 1 ELSE r

Min(a, b) == IF a < b THEN a ELSE b

\* the items of a loop: a list, or the 'items' entry of a dict; [] otherwise.
\* ok = FALSE stands for the ValueError of int() on a malformed reference.
LoopItems(src, results) ==
    IF src.kind = "bad" THEN [ok |-> FALSE, items |-> <<>>]
    ELSE IF src.kind = "none" THEN [ok |-> TRUE, items |-> <<>>]
    ELSE LET step_i == src.n - 1
         IN IF 0 <= step_i /\ step_i < Len(results)
            THEN IF results[step_i + 1].kind \in {"list", "dict_items"}
                 THEN [ok |-> TRUE, items |-> results[step_i + 1].items]
                 ELSE [ok |-> TRUE, items |-> <<>>]
            ELSE [ok |-> TRUE, items |-> <<>>]

\* items[:max_iterations]
Slice(items, m) == SubSeq(items, 1, Min(Len(items), m))

\* "success" if success else "failed"
LogStatus(success) == IF success THEN "success" ELSE "failed"

LogEntry(order, iteration, ret) ==
    [step |-> order, iteration |-> iteration, status |-> LogStatus(ret.success),
     output |-> ret.output]

AppReturn(success, output) == [success |-> success, output |-> output]

AppInit ==
    [pc |-> "idle", steps |-> <<>>, trigger_data |-> VNone,
     i |-> 0, logs |-> <<>>, step_results |-> <<>>, status |-> "success",
     items |-> <<>>, iteration |-> 0, loop_results |-> <<>>,
     caller |-> None, retries |-> 0, attempt |-> 0, params |-> <<>>,
     ret |-> AppReturn(FALSE, VNone),
     \* observations: provider calls and sleeps of the current execute_step,
     \* indices dispatched so far, else_jump redirections taken so far
     dispatches |-> 0, sleeps |-> 0, dispatched |-> {}, jump_log |-> <<>>]

\* the step the cursor is at
AppStep == app.steps[app.i + 1]

\* the results execute_step was called with
AppResults == IF app.caller = "loop" THEN app.loop_results
              ELSE app.step_results

\* the entry of app.py execute_step(step, results): retries and params are
\* computed before the try block, so a JSONDecodeError of resolve_params
\* leaves execute_step and execute_plan_logic
EnterExecuteStep(a, st, results, caller) ==
    LET r == resolve_params(st.template, results)
    IN IF r.ok
       THEN [a EXCEPT !.pc = "step", !.caller = caller,
                      !.retries = Retries(st.retries), !.attempt = 0,
                      !.params = r.s, !.dispatches = 0, !.sleeps = 0]
       ELSE [a EXCEPT !.pc = "raised", !.caller = caller]

\* execute_plan_logic is called for a stored, enabled plan of n steps
App_execute_plan_logic(n, trigger_data) ==
    /\ engine = "app"
    /\ app.pc = "idle"
    /\ app' = [AppInit EXCEPT
                 !.pc = "while",
                 !.steps = [k \in 1..n |-> Unread],
                 !.trigger_data = trigger_data,
                 !.step_results = IF Truthy(trigger_data)
                                  THEN <<trigger_data>> ELSE <<>>]
    /\ UNCHANGED <<advVars, engine, eng, db>>

\* the plan is disabled: {"error": "Plan is disabled"} is returned
App_PlanDisabled ==
    /\ engine = "app"
    /\ app.pc = "idle"
    /\ app' = [app EXCEPT !.pc = "error"]
    /\ UNCHANGED <<advVars, engine, eng, db>>

\* step = steps[i], read for the first time
App_ReadStep(st) ==
    /\ engine = "app"
    /\ app.pc = "while"
    /\ app.i < Len(app.steps)
    /\ AppStep.type = "unread"
    /\ app' = [app EXCEPT !.steps[app.i + 1] = st]
    /\ UNCHANGED <<advVars, engine, eng, db>>

\* a variant in which the i += 1 at the end of the loop body still runs
JumpTargetPlusOne(st) == st.else_jump + 1

\* i = step['else_jump']; continue
JumpTarget(st) == st.else_jump

\* a variant in which a false condition without else_jump falls through to
\* the next step
App_ConditionFallsThrough ==
    /\ engine = "app"
    /\ app.pc = "while"
    /\ app.i < Len(app.steps)
    /\ AppStep.type = "condition"
    /\ (~evaluate_condition(AppStep.condition, app.step_results)
          /\ AppStep.has_else_jump) => Len(app.jump_log) < MaxJumps
    /\ app' = IF evaluate_condition(AppStep.condition, app.step_results)
              THEN [app EXCEPT !.i = @ + 1]
              ELSE IF AppStep.has_else_jump
              THEN [app EXCEPT !.i = JumpTarget(AppStep),
                               !.jump_log = Append(@, <<app.i,
                                                        AppStep.else_jump>>)]
              ELSE [app EXCEPT !.i = @ + 1]
    /\ UNCHANGED <<advVars, engine, eng, db>>

\* a condition step: go on, jump to else_jump, or break
App_Condition ==
    /\ engine = "app"
    /\ app.pc = "while"
    /\ app.i < Len(app.steps)
    /\ AppStep.type = "condition"
    /\ (~evaluate_condition(AppStep.condition, app.step_results)
          /\ AppStep.has_else_jump) => Len(app.jump_log) < MaxJumps
    /\ app' = IF evaluate_condition(AppStep.condition, app.step_results)
              THEN [app EXCEPT !.i = @ + 1]
              ELSE IF AppStep.has_else_jump
              THEN [app EXCEPT !.i = JumpTarget(AppStep),
                               !.jump_log = Append(@, <<app.i,
                                                        AppStep.else_jump>>)]
              ELSE [app EXCEPT !.pc = "end"]
    /\ UNCHANGED <<advVars, engine, eng, db>>

\* a loop step: the items are extracted; int() of a malformed reference
\* raises ValueError
App_LoopEnter ==
    /\ engine = "app"
    /\ app.pc = "while"
    /\ app.i < Len(app.steps)
    /\ AppStep.type = "loop"
    /\ LET got == LoopItems(AppStep.items_source, app.step_results)
       IN app' = IF got.ok
                 THEN [app EXCEPT !.pc = "for", !.iteration = 0,
                                  !.items = Slice(got.items,
                                                  AppStep.max_iterations)]
                 ELSE [app EXCEPT !.pc = "raised"]
    /\ UNCHANGED <<advVars, engine, eng, db>>

\* for item in items[:max_iterations]: the body is execute_step on the
\* results plus the item; after the last item the cursor advances
App_LoopNext ==
    /\ engine = "app"
    /\ app.pc = "for"
    /\ app' = IF app.iteration < Len(app.items)
              THEN LET lr == Append(app.step_results,
                                    VStr(app.items[app.iteration + 1]))
                   IN EnterExecuteStep(
                        [app EXCEPT !.iteration = @ + 1, !.loop_results = lr],
                        AppStep, lr, "loop")
              ELSE [app EXCEPT !.pc = "while", !.i = @ + 1, !.items = <<>>,
                               !.iteration = 0, !.loop_results = <<>>,
                               !.caller = None]
    /\ UNCHANGED <<advVars, engine, eng, db>>

\* a regular action step
App_Action ==
    /\ engine = "app"
    /\ app.pc = "while"
    /\ app.i < Len(app.steps)
    /\ AppStep.type = "action"
    /\ app' = EnterExecuteStep(app, AppStep, app.step_results, "action")
    /\ UNCHANGED <<advVars, engine, eng, db>>

\* for attempt in range(retries): the provider branch is entered
App_ProviderCall ==
    /\ engine = "app"
    /\ app.pc = "step"
    /\ app.attempt < app.retries
    /\ app' = [app EXCEPT !.pc = "call", !.dispatches = @ + 1,
                          !.dispatched = @ \cup {app.i}]
    /\ UNCHANGED <<advVars, engine, eng, db>>

\* the provider branch returns: "logic" hands back params['template'], any
\* other branch its own output or (False, None, message)
App_CallReturns(success, output) ==
    /\ engine = "app"
    /\ app.pc = "call"
    /\ IF AppStep.provider = "logic"
       THEN success /\ output = VStr(app.params)
       ELSE \/ success /\ output \in ExtOutputs
            \/ ~success /\ output = VNone
    /\ app' = [app EXCEPT !.pc = "ret", !.ret = AppReturn(success, output)]
    /\ UNCHANGED <<advVars, engine, eng, db>>

\* the provider branch raises: return on the last attempt, else sleep(1)
App_CallRaises ==
    /\ engine = "app"
    /\ app.pc = "call"
    /\ AppStep.provider # "logic"
    /\ app' = IF app.attempt = app.retries - 1
              THEN [app EXCEPT !.pc = "ret", !.ret = AppReturn(FALSE, VNone)]
              ELSE [app EXCEPT !.pc = "step", !.attempt = @ + 1,
                               !.sleeps = @ + 1]
    /\ UNCHANGED <<advVars, engine, eng, db>>

\* execute_step returned to execute_plan_logic: log, append, stop on failure
App_StepReturned ==
    /\ engine = "app"
    /\ app.pc = "ret"
    /\ LET iter == IF app.caller = "loop" THEN app.iteration ELSE 0
           a1 == [app EXCEPT
                    !.logs = Append(@, LogEntry(AppStep.order, iter, app.ret)),
                    !.step_results = Append(@, app.ret.output),
                    !.ret = AppInit.ret, !.params = <<>>, !.retries = 0,
                    !.attempt = 0, !.dispatches = 0, !.sleeps = 0]
       IN app' = IF ~app.ret.success
                 THEN [a1 EXCEPT !.status = "failed", !.pc = "end"]
                 ELSE IF app.caller = "loop"
                 THEN [a1 EXCEPT !.pc = "for"]
                 ELSE [a1 EXCEPT !.pc = "while", !.i = @ + 1,
                                 !.caller = None]
    /\ UNCHANGED <<advVars, engine, eng, db>>

\* the while loop is over: the execution is stored and returned
App_Finish ==
    /\ engine = "app"
    /\ \/ app.pc = "end"
       \/ app.pc = "while" /\ app.i >= Len(app.steps)
    /\ db' = Append(db, [status |-> app.status, logs |-> app.logs,
                         trigger_data |-> app.trigger_data])
    /\ app' = [app EXCEPT !.pc = "returned"]
    /\ UNCHANGED <<advVars, engine, eng>>

NextApp ==
    \/ \E n \in 0..MaxPlanSteps, t \in TriggerData : App_execute_plan_logic(n, t)
    \/ App_PlanDisabled
    \/ \E st \in AppSteps(app.i, Len(app.steps)) : App_ReadStep(st)
    \/ App_Condition
    \/ App_LoopEnter
    \/ App_LoopNext
    \/ App_Action
    \/ App_ProviderCall
    \/ \E ok \in BOOLEAN, out \in ExtOutputs \cup {VNone, VStr(app.params)} :
          App_CallReturns(ok, out)
    \/ App_CallRaises
    \/ App_StepReturned
    \/ App_Finish

\* ------------------------------------------------------------------------
\* Specifications
\* ------------------------------------------------------------------------
Fresh ==
    /\ InitAdv
    /\ returned = NoReturn
    /\ peer = PeerInit
    /\ eng = EngInit
    /\ app = AppInit
    /\ db = <<>>

Init ==
    /\ engine \in {"adv", "eng", "app"}
    /\ Fresh

Next == NextAdv \/ NextEng \/ NextApp

Spec == Init /\ [][Next]_vars

InitAdvOnly ==
    /\ engine = "adv"
    /\ Fresh

SpecAdv == InitAdvOnly /\ [][NextAdv]_vars

SpecStore == InitAdvOnly /\ [][NextStore]_vars

SpecThreads == InitAdvOnly /\ [][NextThreads]_vars

InitEngOnly ==
    /\ engine = "eng"
    /\ Fresh

SpecEng == InitEngOnly /\ [][NextEng]_vars

InitAppOnly ==
    /\ engine = "app"
    /\ Fresh

SpecApp == InitAppOnly /\ [][NextApp]_vars

\* ------------------------------------------------------------------------
\* Properties
\* ------------------------------------------------------------------------

\* the records of the advanced engine whose final status has been computed
AdvRecords ==
    {execution_history[e] : e \in DOMAIN execution_history}
    \cup {dead_letter_queue[k] : k \in 1..Len(dead_letter_queue)}
    \cup (IF pc \in {"store", "dlq"} THEN {execution_record} ELSE {})

StepWith(rec, status) == \E k \in 1..Len(rec.steps) : rec.steps[k].status = status

LogWith(ex, status) == \E k \in 1..Len(ex.logs) : ex.logs[k].status = status

\* C1: in every execution record of execute_with_retries and of
\* execute_plan_logic the final status is success if and only if no step
\* result of the record has status failed.
C1_SuccessIffNoFailedStep ==
    /\ \A r \in AdvRecords : (r.status = SUCCESS) <=> ~StepWith(r, FAILED)
    /\ \A k \in 1..Len(db) : (db[k].status = "success") <=> ~LogWith(db[k], "failed")

\* a stored record of two steps, one succeeded and one failed
C1_Witness ==
    \E e \in DOMAIN execution_history :
        /\ StepWith(execution_history[e], FAILED)
        /\ StepWith(execution_history[e], SUCCESS)
        /\ execution_history[e].status # SUCCESS

\* C2: at the end of a run with at least one failed step the final status is
\* partial_failure when some step of the run succeeded and failed when none
\* did, in execute_with_retries and in execute_plan_logic.
C2_PartialFailureWhenSomeSucceeded ==
    /\ \A r \in AdvRecords :
          StepWith(r, FAILED) =>
             r.status = IF StepWith(r, SUCCESS) THEN PARTIAL_FAILURE ELSE FAILED
    /\ \A k \in 1..Len(db) :
          LogWith(db[k], "failed") =>
             db[k].status = IF LogWith(db[k], "success") THEN PARTIAL_FAILURE
                            ELSE FAILED

\* C3: a run adds an entry to the dead-letter queue if and only if its final
\* status is failed: the queue changes only by appending the record of the
\* run that ends failed, and the run that ends failed appends it when it
\* returns.
C3_DeadLetterIffFailed ==
    [][/\ dead_letter_queue' # dead_letter_queue =>
            /\ execution_record.status = FAILED
            /\ dead_letter_queue' = Append(dead_letter_queue, execution_record)
       /\ (pc = "dlq" /\ pc' = "idle") =>
            (execution_record.status = FAILED <=>
                dead_letter_queue' # dead_letter_queue)]_vars

\* a run has returned with status failed and its record is the one entry
C3_Witness ==
    /\ pc = "idle"
    /\ Len(dead_letter_queue) = 1
    /\ \E e \in DOMAIN execution_history :
          /\ execution_history[e].status = FAILED
          /\ dead_letter_queue[1] = execution_history[e]

\* the step of the advanced engine was recorded failed after its last attempt
AdvStepFailed == pc = "while" /\ step_obj.status = FAILED

\* execute_step of execution_engine.py returns after every call of
\* registry.execute raised
EngStepExhausted ==
    /\ eng.pc = "ret"
    /\ ~eng.ret.success
    /\ eng.dispatches > 0
    /\ eng.returned_failures = 0

\* C4: a step whose max_retries is r and whose provider fails on every
\* attempt is dispatched exactly r + 1 times and then recorded failed.
C4_FailingStepDispatchedRPlusOne ==
    /\ AdvStepFailed => dispatches = max_retries + 1
    /\ EngStepExhausted => eng.dispatches = eng.max_retries + 1

\* C5: for a permanently failing step with max_retries = r and backoff base
\* b there are exactly r sleeps, the one after the k-th failure lasts b^k,
\* and they sum to b^1 + ... + b^r.
C5_BackoffSleeps ==
    LET Backoff(b, r) == [k \in 1..r |-> Pow(b, k)]
    IN  /\ AdvStepFailed =>
              /\ sleeps = Backoff(retry_backoff, max_retries)
              /\ SumSeq(sleeps) = SumSeq(Backoff(retry_backoff, max_retries))
        /\ EngStepExhausted =>
              /\ eng.sleeps = Backoff(2, eng.max_retries)
              /\ SumSeq(eng.sleeps) = SumSeq(Backoff(2, eng.max_retries))

C8_NoExceptionEscapes ==
    /\ pc # "raised"
    /\ app.pc # "raised"

\* C9: once a step is recorded failed, no later step is dispatched to a
\* provider in that run.
C9_NoDispatchAfterFailure ==
    /\ pc = "call" => execution_record.failed_steps = <<>>
    /\ eng.pc = "dispatch" => eng.failed_steps = 0
    /\ app.pc = "call" => app.status = "success"

\* the cursor is at a condition step that evaluates to false and has else_jump
JumpTaken ==
    /\ app.pc = "while"
    /\ app.i < Len(app.steps)
    /\ AppStep.type = "condition"
    /\ ~evaluate_condition(AppStep.condition, app.step_results)
    /\ AppStep.has_else_jump

\* the indices a redirection from f to t passes over
SkippedBy(jump) == {k \in 0..MaxPlanSteps : jump[1] < k /\ k < jump[2]}

\* index k was dispatched or has an entry in the logs
Touched(k) ==
    \/ k \in app.dispatched
    \/ \E e \in 1..Len(app.logs) : app.logs[e].step = k + 1

\* the jump itself: the cursor becomes else_jump, nothing is dispatched and
\* nothing is logged
JumpLands ==
    JumpTaken =>
        /\ app'.i = AppStep.else_jump
        /\ app'.pc = "while"
        /\ app'.logs = app.logs
        /\ app'.step_results = app.step_results
        /\ app'.dispatched = app.dispatched

\* C10 as stated: after a false condition with else_jump = j the cursor is at
\* j, and the indices passed over are never dispatched and have no entry in
\* the record.
C10_SkippedNeverTouched ==
    \A p \in 1..Len(app.jump_log) :
        \A k \in SkippedBy(app.jump_log[p]) : ~Touched(k)

AllJumpsForward ==
    \A p \in 1..Len(app.jump_log) : app.jump_log[p][1] < app.jump_log[p][2]

\* C10, amended: the jump puts the cursor at j without dispatching or logging
\* anything, and in a run whose redirections all point forward the indices
\* passed over are never dispatched and have no entry in the record.
C10_JumpLandsAtElseJump ==
    /\ [][JumpLands]_vars
    /\ [](AllJumpsForward => C10_SkippedNeverTouched)

\* a redirection passed over an index and the step it landed on is being
\* dispatched
C10_Witness ==
    /\ app.pc = "call"
    /\ \E p \in 1..Len(app.jump_log) :
          /\ app.jump_log[p][2] > app.jump_log[p][1] + 1
          /\ app.i = app.jump_log[p][2]

\* the cursor is at a condition step that evaluates to false and has no
\* else_jump
BreakTaken ==
    /\ app.pc = "while"
    /\ app.i < Len(app.steps)
    /\ AppStep.type = "condition"
    /\ ~evaluate_condition(AppStep.condition, app.step_results)
    /\ ~AppStep.has_else_jump

\* the cursor is at a condition step that evaluates to true
ConditionHolds ==
    /\ app.pc = "while"
    /\ app.i < Len(app.steps)
    /\ AppStep.type = "condition"
    /\ evaluate_condition(AppStep.condition, app.step_results)

\* C11: a false condition without else_jump ends the run at once: nothing
\* is dispatched or logged any more, the stored execution holds the logs of
\* the steps run before it, and its status is success when none of them
\* failed; a true condition moves the cursor to the next step.
C11_FalseConditionEndsRun ==
    /\ [][/\ BreakTaken =>
               /\ app'.pc = "end"
               /\ app'.logs = app.logs
               /\ app'.dispatched = app.dispatched
               /\ app'.status = app.status
          /\ app.pc = "end" =>
               /\ app'.pc = "returned"
               /\ app'.dispatched = app.dispatched
               /\ db' = Append(db, [status |-> app.status, logs |-> app.logs,
                                    trigger_data |-> app.trigger_data])
          /\ ConditionHolds =>
               /\ app'.pc = "while"
               /\ app'.i = app.i + 1
               /\ app'.logs = app.logs]_vars
    /\ []((app.pc = "end" /\ ~LogWith(app, "failed")) => app.status = "success")

\* a run was ended by a condition after one step had run and before another
C11_Witness ==
    /\ app.pc = "returned"
    /\ app.i + 1 < Len(app.steps)
    /\ AppStep.type = "condition"
    /\ ~AppStep.has_else_jump
    /\ Len(db) = 1
    /\ db[1].status = "success"
    /\ Len(db[1].logs) = 1

\* the stored execution ended on a failed iteration of a loop
LoopBodyFailed(ex) ==
    /\ ex.logs # <<>>
    /\ ex.logs[Len(ex.logs)].iteration > 0
    /\ ex.logs[Len(ex.logs)].status = "failed"

\* C12: when the body of a loop fails on the k-th item, the execution ends
\* with exactly k iteration entries of the loop (k - 1 succeeded, the k-th
\* failed), no later item is attempted, and the final status is
\* partial_failure if a step before the loop succeeded and failed otherwise.
C12_LoopStopsAtFailedItem ==
    \A x \in 1..Len(db) :
        LoopBodyFailed(db[x]) =>
            LET logs == db[x].logs
                last == logs[Len(logs)]
                first == Len(logs) - last.iteration
            IN  /\ first >= 0
                /\ \A k \in 1..last.iteration :
                      /\ logs[first + k].step = last.step
                      /\ logs[first + k].iteration = k
                      /\ logs[first + k].status =
                            IF k < last.iteration THEN "success" ELSE "failed"
                /\ db[x].status =
                      IF \E k \in 1..first : logs[k].status = "success"
                      THEN PARTIAL_FAILURE
                      ELSE FAILED

\* resolve_params is being applied: by execute_step (the frame has just been
\* entered) or by evaluate_condition (the cursor is at a condition step)
Resolving ==
    \/ app.pc = "step"
    \/ /\ app.pc = "while"
       /\ app.i < Len(app.steps)
       /\ AppStep.type = "condition"

\* the context resolve_params is applied to
ResolveContext == IF app.pc = "step" THEN AppResults ELSE app.step_results

RetryOfQueued ==
    /\ returned' # returned
    /\ returned'.op = "retry_from_dlq"
    /\ DlqItem(dead_letter_queue, returned'.execution_id) # NotFound

\* C14: retry_from_dlq for an id of the dead-letter queue starts the plan
\* again from its first step as a fresh run, under a new execution id that
\* differs from the original one.
C14_RetryRunsPlanAgain ==
    [][RetryOfQueued =>
          /\ pc' = "for"
          /\ step_idx' = 0
          /\ runs' = runs + 1
          /\ execution_id' \notin {None, returned'.execution_id}
          /\ execution_id' \notin DOMAIN execution_history]_vars

\* C15: the dead-letter queue is append-only: whatever step is taken (of a
\* run, pause, resume, a status query, retry_from_dlq), every entry of the
\* queue is afterwards still there, at the same position and unchanged.
C15_DeadLetterQueueAppendOnly ==
    [][/\ Len(dead_letter_queue') >= Len(dead_letter_queue)
       /\ \A k \in 1..Len(dead_letter_queue) :
             dead_letter_queue'[k] = dead_letter_queue[k]]_vars

\* two runs were filed, one of them was paused, and a retry was asked for
C15_Witness ==
    /\ Len(dead_letter_queue) = 2
    /\ paused_executions # EmptyDict
    /\ returned.op = "retry_from_dlq"
    /\ DlqItem(dead_letter_queue, returned.execution_id) # NotFound

\* the step read by the for loop names a dependency that has no result
DependencyMissing(s) ==
    /\ s.depends_on # None
    /\ s.depends_on \notin DOMAIN step_results

\* C16: a step whose depends_on names a step without a successful result in
\* this run is never dispatched, with or without a condition of its own; it
\* is recorded with status skipped and the run goes on to the next step.
C16_MissingDependencySkipsStep ==
    /\ pc = "call" => ~DependencyMissing(step)
    /\ pc # "raised"


\* the step is a call of pause_execution or resume_execution that answered
PauseResumeCall ==
    /\ returned' # returned
    /\ returned'.op \in {"pause_execution", "resume_execution"}

\* the next step of the run that is under way, as NextStore takes it
RunStep ==
    \/ \E s \in StoreSteps(step_idx) : ForStep(s)
    \/ \E s \in StoreSteps(step_idx) : ForSkip(s)
    \/ AttemptBegin
    \/ \E o \in CallOutcomes : AttemptReturns(o)
    \/ \E o \in CallOutcomes : AttemptRaises(o)
    \/ StepDone
    \/ Finalize
    \/ StoreRecord
    \/ FileDeadLetter

C18_CompletedRecordImmutable ==
    [][\A id \in DOMAIN execution_history :
          execution_history[id].completed_at # None =>
              /\ id \in DOMAIN execution_history'
              /\ execution_history'[id] = execution_history[id]]_vars

\* the run is between the creation of its record and the end of its for loop
BeforeFinalStatus == pc \in {"for", "while", "call"}

\* C19: while a run has not yet computed its final status, what
\* get_execution_status answers for its id carries the status running, never
\* success, failed or partial_failure.
C19_OnlyRunningVisibleMidRun ==
    BeforeFinalStatus =>
        ExecutionStatusOf(execution_history, execution_id).status = RUNNING

\* the redirections from the a-th on each start at the index the one before
\* landed on, and the last lands where the a-th started: between them no
\* step ran, so cursor and step_results are what they were before the a-th
JumpCycle(jumps, a) ==
    /\ \A b \in a..(Len(jumps) - 1) : jumps[b][2] = jumps[b + 1][1]
    /\ jumps[Len(jumps)][2] = jumps[a][1]

\* C20: every run of a finite plan ends. A run that ends never comes back,
\* by else_jump alone, to a condition it has already found false: the
\* condition would be found false on the same step_results again and the
\* while loop would repeat the redirections for ever.
C20_EveryRunEnds ==
    \A a \in 1..Len(app.jump_log) : ~JumpCycle(app.jump_log, a)

\* both threads have left execute_with_retries by its return statement
BothCompleted ==
    /\ runs = 1
    /\ pc = "idle"
    /\ peer.pc = "returned"

\* how many entries of the queue carry the id
QueuedTimes(queue, id) ==
    Cardinality({k \in 1..Len(queue) : queue[k].execution_id = id})

\* C21: two executions with distinct ids run on two threads and complete in
\* any interleaving. Every write to the store puts the writer's own record
\* under its own id and leaves every other key as it was; once both have
\* completed, the store holds one completed record under each id and the
\* dead-letter queue holds, once each, exactly the records that ended failed.
C21_ConcurrentRunsKeepTheirRecords ==
    /\ [][/\ (pc = "store" /\ pc' = "dlq") =>
               /\ execution_history'[execution_id] = execution_record
               /\ \A id \in DOMAIN execution_history \ {execution_id} :
                      /\ id \in DOMAIN execution_history'
                      /\ execution_history'[id] = execution_history[id]
          /\ (peer.pc = "store" /\ peer'.pc = "dlq") =>
               /\ execution_history'[peer.execution_id] = peer.execution_record
               /\ \A id \in DOMAIN execution_history \ {peer.execution_id} :
                      /\ id \in DOMAIN execution_history'
                      /\ execution_history'[id] = execution_history[id]]_vars
    /\ []((BothCompleted /\ Cardinality(DOMAIN execution_history) = 2) =>
            /\ execution_history[peer.execution_id] = peer.execution_record
            /\ \A id \in DOMAIN execution_history :
                 /\ execution_history[id].execution_id = id
                 /\ execution_history[id].completed_at # None
                 /\ QueuedTimes(dead_letter_queue, id) =
                      IF execution_history[id].status = FAILED THEN 1 ELSE 0
            /\ \A k \in 1..Len(dead_letter_queue) :
                 /\ dead_letter_queue[k].execution_id \in DOMAIN execution_history
                 /\ dead_letter_queue[k] =
                      execution_history[dead_letter_queue[k].execution_id])

\* both runs ended failed under distinct ids, the peer stored its record
\* first and was queued second
C21_Witness ==
    /\ BothCompleted
    /\ Cardinality(DOMAIN execution_history) = 2
    /\ Len(dead_letter_queue) = 2
    /\ dead_letter_queue[2] = peer.execution_record

\* the status changes a step object may go through
StatusMoves ==
    {<<PENDING, RUNNING>>, <<RUNNING, RETRYING>>, <<RUNNING, SUCCESS>>,
     <<RUNNING, FAILED>>, <<RETRYING, SUCCESS>>, <<RETRYING, FAILED>>}

\* C22: the status of the step being run goes pending, running, retrying any
\* number of times, then success or failed; running is set on the first
\* attempt only, retrying on later attempts only, and a step whose status is
\* retrying has a retry_count strictly below max_retries.
C22_StepStatusLifecycle ==
    /\ [][/\ (pc \in {"while", "call"} /\ pc' \in {"while", "call"}
                /\ step_obj'.status # step_obj.status)
               => <<step_obj.status, step_obj'.status>> \in StatusMoves
          /\ (pc = "while" /\ pc' = "call") =>
               /\ step_obj'.status = RUNNING <=> attempt = 0
               /\ step_obj'.status = RETRYING <=> attempt > 0]_vars
    /\ [](step_obj.status = RETRYING => step_obj.retry_count < max_retries)

\* the cursor is at a condition step whose try block raises
ConditionRaises ==
    /\ app.pc = "while"
    /\ app.i < Len(app.steps)
    /\ AppStep.type = "condition"
    /\ ConditionTry(AppStep.condition, app.step_results).raised

\* C23: evaluate_condition never raises. Whatever the condition is (absent,
\* not a string, or a text whose resolution or comparison throws) it hands
\* back a boolean, and False when an exception occurred: the driver then
\* takes the false branch, the else_jump if there is one, the end of the run
\* otherwise.
C23_ConditionNeverRaises ==
    /\ [][ConditionRaises =>
            /\ ~evaluate_condition(AppStep.condition, app.step_results)
            /\ app'.pc # "raised"
            /\ IF AppStep.has_else_jump
               THEN app'.pc = "while" /\ app'.i = AppStep.else_jump
               ELSE app'.pc = "end" /\ app'.i = app.i]_vars
    /\ []((app.pc = "while" /\ app.i < Len(app.steps)
             /\ AppStep.type = "condition")
            => evaluate_condition(AppStep.condition, app.step_results)
                  \in BOOLEAN)

\* the run was ended by a condition step whose try block raised: one that
\* has no condition, or one whose resolved text is no valid JSON
C23_Witness ==
    /\ app.pc = "end"
    /\ app.i < Len(app.steps)
    /\ AppStep.type = "condition"
    /\ ConditionTry(AppStep.condition, app.step_results).raised
    /\ AppStep.condition \in {VNone, VStr(CondEq)}

\* the text of the condition under the cursor after resolve_params
ResolvedCondition == resolve_params(AppStep.condition.s, app.step_results)

\* the cursor is at a condition whose resolved text holds neither == nor !=
PlainCondition ==
    /\ app.pc = "while"
    /\ app.i < Len(app.steps)
    /\ AppStep.type = "condition"
    /\ AppStep.condition.kind = "str"
    /\ ResolvedCondition.ok
    /\ Find(ResolvedCondition.s, <<"=", "=">>) = 0
    /\ Find(ResolvedCondition.s, <<"!", "=">>) = 0

\* C24: a resolved condition text that holds no comparison evaluates to true
\* exactly when it is not empty and is not the text false.
C24_PlainTextTruth ==
    PlainCondition =>
        (evaluate_condition(AppStep.condition, app.step_results)
           <=> (ResolvedCondition.s # <<>> /\ ResolvedCondition.s # TextFalse))

\* the cursor is at a loop step whose items source gives no list: a
\* reference that holds no number, an index outside step_results, or a
\* result that is neither a list nor a dict with a list under 'items'
LoopWithoutItems ==
    /\ app.pc = "while"
    /\ app.i < Len(app.steps)
    /\ AppStep.type = "loop"
    /\ LET src == AppStep.items_source
       IN \/ src.kind # "step"
          \/ ~(0 <= src.n - 1 /\ src.n - 1 < Len(app.step_results))
          \/ app.step_results[src.n].kind \notin {"list", "dict_items"}

\* C25: a loop step whose items source gives no list runs no iteration and
\* raises nothing: nothing is logged, the status stays what it was, and the
\* driver goes on to the next step.
C25_MalformedLoopSourceIsEmpty ==
    [][/\ LoopWithoutItems =>
            /\ app'.pc = "for"
            /\ app'.items = <<>>
            /\ app'.i = app.i
            /\ app'.logs = app.logs
            /\ app'.status = app.status
       /\ (app.pc = "for" /\ app.items = <<>>) =>
            /\ app'.pc = "while"
            /\ app'.i = app.i + 1
            /\ app'.logs = app.logs
            /\ app'.status = app.status]_vars

\* execute_plan_logic is past the seeding of step_results
RunSeeded == app.pc \notin {"idle", "error"}

\* C26: trigger data that was passed to the run, an empty map included, is
\* the first entry of step_results before any step runs, so that
\* {{step_1.output}} resolves to it; without trigger data the first entry is
\* the output of the first step that ran.
C26_TriggerDataSeedsContext ==
    /\ (RunSeeded /\ app.trigger_data # VNone) =>
          /\ app.step_results # <<>>
          /\ app.step_results[1] = app.trigger_data
          /\ Substitute(<<Tok(1)>>, app.step_results) = PyStr(app.trigger_data)
    /\ (RunSeeded /\ app.trigger_data = VNone /\ app.step_results # <<>>) =>
          /\ app.logs # <<>>
          /\ app.step_results[1] = app.logs[1].output

\* C27: every record of the execution history whose status is failed has an
\* entry in the dead-letter queue, in every state another thread can read.
C27_FailedRecordIsQueued ==
    \A id \in DOMAIN execution_history :
        execution_history[id].status = FAILED =>
            \E k \in 1..Len(dead_letter_queue) :
                dead_letter_queue[k] = execution_history[id]

\* C28: whatever calls of execute_with_retries were made, with execution ids
\* used once or several times, no id has more than one entry in the
\* dead-letter queue.
C28_OneQueueEntryPerId ==
    \A id \in ExecIds : QueuedTimes(dead_letter_queue, id) <= 1

\* the step is a call of pause_execution that answered
PauseCall == PauseResumeCall /\ returned'.op = "pause_execution"

\* the step is a call of resume_execution that answered
ResumeCall == PauseResumeCall /\ returned'.op = "resume_execution"

\* a call of execute_with_retries has not yet written its record
RunInProgress == pc \in {"for", "while", "call", "store"}

\* C29: every paused id is a key of the execution history. pause_execution
\* answers False and changes nothing for an id without a stored record, and
\* so for the id of every run still in progress; resume_execution answers
\* False and changes nothing for an id that is not paused.
C29_PausedIdsHaveRecords ==
    /\ [](DOMAIN paused_executions \subseteq DOMAIN execution_history)
    /\ [][/\ (PauseCall
                /\ returned'.execution_id \notin DOMAIN execution_history) =>
               /\ ~returned'.value.result
               /\ UNCHANGED <<storeVars, runVars>>
          /\ (ResumeCall
                /\ returned'.execution_id \notin DOMAIN paused_executions) =>
               /\ ~returned'.value.result
               /\ UNCHANGED <<storeVars, runVars>>
          /\ (PauseCall /\ RunInProgress
                /\ returned'.execution_id = execution_id) =>
               /\ ~returned'.value.result
               /\ UNCHANGED <<storeVars, runVars>>]_vars

====
